---- MODULE Spec2Model ----
(***************************************************************************)
(* Model of the adk-docs repository: the Sphinx docstring filter of        *)
(* docs/api-reference/source/conf.py (skip_pydantic_init, setup), and the  *)
(* tool and callback functions of the example snippets.                    *)
(*                                                                         *)
(* A docstring line is a sequence of text tokens; the empty string '' is   *)
(* the empty sequence.  A line buffer is a sequence of lines.              *)
(***************************************************************************)
EXTENDS Naturals, Sequences, FiniteSets

VARIABLES
  pc,        \* position of the documentation build
  handlers,  \* callbacks connected to 'autodoc-process-docstring'
  lg,        \* root logger: [handlers |-> number installed, level |-> name]
  project,   \* the documented symbols, in build order: [what, name, obj, lines]
  bufs,      \* the build's line buffer of each symbol
  n,         \* number of symbols the filter has been called for
  cur,       \* record of the latest skip_pydantic_init call, or NoCall
  stock,     \* record of the get_stock_price call in progress
  cb,        \* record of the agent callback invocation in progress
  run        \* record of the parallel research example's direct run

vars == <<pc, handlers, lg, project, bufs, n, cur, stock, cb, run>>

\* ------------------------------------------------------------------ bounds

MaxLineLen == 2   \* tokens per docstring line
MaxLines == 2     \* lines per docstring buffer
MaxPrice == 2     \* largest close price of a history row
MaxRows == 2      \* rows of a one-day price history
MaxEvents == 2    \* events of a run_async stream

SeqsUpTo(S, max) == UNION {[1..k -> S] : k \in 0..max}

\* ------------------------------------------------------- docstring filter

\* The generic phrase tested at conf.py:63, as one token.
Phrase == <<"Create a new model by parsing">>

Tokens == {"Create a new model by parsing", " x"}

Lines == SeqsUpTo(Tokens, MaxLineLen)

Buffers == SeqsUpTo(Lines, MaxLines)

\* The buffers drawn by the multi-call build specification.
BuildBuffers ==
  { <<>>,
    <<Phrase>>,
    <<Phrase, <<" x">>>>,
    <<<<" x">>, Phrase>> }

\* Values of the hook's `what` argument.
Whats == {"pydantic_model", "method", "class", "function", "attribute"}

\* Values of the hook's `name` argument (autodoc passes qualified names).
Names == {"__init__", "pkg.Model.__init__"}

\* Objects handed to the hook.  Classes carry an __mro__; functions,
\* instances and modules do not; BadMro is an object whose __mro__ attribute
\* is None, EmptyMro one whose __mro__ is the empty tuple.
Objs == {"Model", "BaseModel", "Plain", "Model.__init__", "Plain.__init__",
         "instance", "BadMro", "EmptyMro"}

Classes == {"Model", "BaseModel", "Plain", "object"}

\* Whether obj.__mro__ exists (inspect.getmro returns cls.__mro__).
HasMro(obj) == obj \in {"Model", "BaseModel", "Plain", "BadMro", "EmptyMro"}

\* obj.__mro__; None is modelled as the string "None".
Mro(obj) ==
  CASE obj = "Model" -> <<"Model", "BaseModel", "object">>
    [] obj = "BaseModel" -> <<"BaseModel", "object">>
    [] obj = "Plain" -> <<"Plain", "object">>
    [] obj = "EmptyMro" -> <<>>
    [] OTHER -> <<"None">>

\* Whether mro[0] can be evaluated without TypeError (None is not subscriptable).
Subscriptable(obj) == obj # "BadMro"

\* The class that owns a method object.
Owner(obj) ==
  CASE obj = "Model.__init__" -> "Model"
    [] obj = "Plain.__init__" -> "Plain"
    [] OTHER -> "None"

IsFunction(obj) == obj \in {"Model.__init__", "Plain.__init__"}

\* inspect.isclass(c)
IsClass(c) == c \in Classes

\* issubclass(c, base): base occurs in the resolution chain of c.
IsSubclass(c, base) ==
  /\ c \in {"Model", "BaseModel", "Plain"}
  /\ \E i \in 1..Len(Mro(c)) : Mro(c)[i] = base

\* Python's exception hierarchy, as far as the sources raise and catch it.
ExcMro(e) ==
  CASE e = "TypeError" -> {"TypeError", "Exception", "BaseException"}
    [] e = "AttributeError" -> {"AttributeError", "Exception", "BaseException"}
    [] e = "IndexError" -> {"IndexError", "LookupError", "Exception", "BaseException"}
    [] e = "KeyError" -> {"KeyError", "LookupError", "Exception", "BaseException"}
    [] e = "ConnectionError" -> {"ConnectionError", "OSError", "Exception", "BaseException"}
    [] e = "KeyboardInterrupt" -> {"KeyboardInterrupt", "BaseException"}
    [] OTHER -> {}

\* `except cls:` catches the raised exception e.
Catches(cls, e) == cls \in ExcMro(e)

\* Mutant of StartsWith: the phrase is looked for anywhere in the line
\* (`in` instead of str.startswith).
StartsWithAnywhere(s, p) ==
  \E i \in 1..Len(s) : i + Len(p) - 1 <= Len(s) /\ SubSeq(s, i, i + Len(p) - 1) = p

\* str.startswith on token sequences.
StartsWith(s, p) == Len(s) >= Len(p) /\ SubSeq(s, 1, Len(p)) = p

\* Severity order of the logging levels.
LevelNo(l) == IF l = "INFO" THEN 2 ELSE 3

\* Mutant of BasicConfig: the level argument is dropped.
BasicConfigNoLevel(l, level) ==
  IF l.handlers > 0 THEN l ELSE [handlers |-> 1, level |-> l.level]

\* logging.basicConfig(level=...): does nothing when the root logger already
\* has a handler; otherwise installs one and sets the level when one is given.
BasicConfig(l, level) ==
  IF l.handlers > 0 THEN l
  ELSE [handlers |-> 1, level |-> IF level = "None" THEN l.level ELSE level]

\* logging.info(msg): configures the root logger by basicConfig() when it has
\* no handler, then emits msg if INFO is enabled.  s = [lg, out].
LoggingInfo(s, msg) ==
  LET l == BasicConfig(s.lg, "None")
  IN [lg |-> l,
      out |-> IF LevelNo("INFO") >= LevelNo(l.level) THEN Append(s.out, msg) ELSE s.out]

Result(s, lines, raised) ==
  [lines |-> lines, raised |-> raised, lg |-> s.lg, out |-> s.out]

\* The handler of a try block's exception: caught by `except TypeError` and
\* logged, or propagated.
ExceptTypeError(s, lines, e, msg) ==
  IF Catches("TypeError", e)
  THEN Result(LoggingInfo(s, msg), lines, "none")
  ELSE Result(s, lines, e)

\* Mutant of PydanticModelBranch: lines.clear() is missing, so the empty
\* line is appended to the generic docstring.
PydanticModelBranchNoClear(s, obj, lines) ==
  IF HasMro(obj) /\ Subscriptable(obj) /\ Len(Mro(obj)) > 0
     /\ IsSubclass(Mro(obj)[1], "BaseModel")
     /\ Len(lines) > 0 /\ StartsWith(lines[1], Phrase)
  THEN Result(LoggingInfo(LoggingInfo(s, "MRO"), "Suppressing BaseModel's __init__ docstring"),
              Append(lines, <<>>), "none")
  ELSE Result(s, lines, IF HasMro(obj) THEN "none" ELSE "AttributeError")

\* conf.py:56-68, the branch for what == 'pydantic_model'.
PydanticModelBranch(s, obj, lines) ==
  LET msg == "obj is not a class-like object (pydantic_model)"
  IN IF ~HasMro(obj) THEN ExceptTypeError(s, lines, "AttributeError", msg)
     ELSE LET s1 == LoggingInfo(s, "MRO")
          IN IF ~Subscriptable(obj) THEN ExceptTypeError(s1, lines, "TypeError", msg)
             ELSE IF Len(Mro(obj)) = 0 THEN ExceptTypeError(s1, lines, "IndexError", msg)
             ELSE IF IsClass(Mro(obj)[1]) /\ IsSubclass(Mro(obj)[1], "BaseModel")
                  THEN IF Len(lines) > 0 /\ StartsWith(lines[1], Phrase)
                       THEN Result(LoggingInfo(s1, "Suppressing BaseModel's __init__ docstring"),
                                   << <<>> >>, "none")
                       ELSE Result(s1, lines, "none")
                  ELSE Result(s1, lines, "none")

\* Mutant of MethodBranch: lines.clear() is missing, so the empty line is
\* appended to the docstring.
MethodBranchNoClear(s, obj, lines) ==
  IF HasMro(obj) /\ Subscriptable(obj) /\ Len(Mro(obj)) > 0
     /\ IsSubclass(Mro(obj)[1], "BaseModel")
  THEN Result(LoggingInfo(LoggingInfo(s, "MRO"), "Suppressing __init__ docstring (method)"),
              Append(lines, <<>>), "none")
  ELSE Result(s, lines, IF HasMro(obj) THEN "none" ELSE "AttributeError")

\* conf.py:69-79, the branch for what == 'method' and name == '__init__'.
MethodBranch(s, obj, lines) ==
  LET msg == "obj is not a class-like object (method)"
  IN IF ~HasMro(obj) THEN ExceptTypeError(s, lines, "AttributeError", msg)
     ELSE LET s1 == LoggingInfo(s, "MRO")
          IN IF ~Subscriptable(obj) THEN ExceptTypeError(s1, lines, "TypeError", msg)
             ELSE IF Len(Mro(obj)) = 0 THEN ExceptTypeError(s1, lines, "IndexError", msg)
             ELSE IF IsClass(Mro(obj)[1]) /\ IsSubclass(Mro(obj)[1], "BaseModel")
                  THEN Result(LoggingInfo(s1, "Suppressing __init__ docstring (method)"),
                              << <<>> >>, "none")
                  ELSE Result(s1, lines, "none")

\* Mutant of SkipPydanticInit: the method test is name.endswith('__init__'),
\* which a qualified name passes too.
SkipPydanticInitEndswith(l, what, name, obj, lines) ==
  LET s == LoggingInfo([lg |-> l, out |-> <<>>], "Processing")
  IN IF what = "pydantic_model" THEN PydanticModelBranch(s, obj, lines)
     ELSE IF what = "method" /\ name \in {"__init__", "pkg.Model.__init__"}
          THEN MethodBranch(s, obj, lines)
     ELSE Result(s, lines, "none")

\* Mutant of SkipPydanticInit: a module-level flag makes the filter act on
\* the first symbol only.
SkipPydanticInitOnce(l, what, name, obj, lines) ==
  LET s == LoggingInfo([lg |-> l, out |-> <<>>], "Processing")
  IN IF n > 0 THEN Result(s, lines, "none")
     ELSE IF what = "pydantic_model" THEN PydanticModelBranch(s, obj, lines)
     ELSE IF what = "method" /\ name = "__init__" THEN MethodBranch(s, obj, lines)
     ELSE Result(s, lines, "none")

\* conf.py:51-79.  The result is the line buffer after the call, the exception
\* that escaped ("none" if none), the root logger and the records emitted.
SkipPydanticInit(l, what, name, obj, lines) ==
  LET s == LoggingInfo([lg |-> l, out |-> <<>>], "Processing")
  IN IF what = "pydantic_model" THEN PydanticModelBranch(s, obj, lines)
     ELSE IF what = "method" /\ name = "__init__" THEN MethodBranch(s, obj, lines)
     ELSE Result(s, lines, "none")

NoCall == [what |-> "none"]

CallRecord(what, name, obj, lines, before, r) ==
  [what |-> what, name |-> name, obj |-> obj, lines |-> lines,
   lgBefore |-> before, after |-> r.lines, raised |-> r.raised,
   lgAfter |-> r.lg, out |-> r.out]

\* ------------------------------------------------------ documentation build

IdleStock == [pc |-> "idle"]
IdleCb == [pc |-> "idle"]
IdleRun == [pc |-> "idle"]

Symbols(docstrings) ==
  [what : Whats, name : Names, obj : Objs, lines : docstrings]

\* The state once conf.py has been read, for a project of documented symbols:
\* nothing is connected, the root logger is Python's default, and every
\* symbol's line buffer holds its docstring.
InitProject(symbols) ==
  /\ pc = "conf"
  /\ handlers = {}
  /\ lg = [handlers |-> 0, level |-> "WARNING"]
  /\ project = symbols
  /\ bufs = [i \in 1..Len(symbols) |-> symbols[i].lines]
  /\ n = 0
  /\ cur = NoCall
  /\ stock = IdleStock
  /\ cb = IdleCb
  /\ run = IdleRun

\* A project of one symbol, with any docstring within the bounds.
Init == \E symbols \in [1..1 -> Symbols(Buffers)] : InitProject(symbols)

\* A project of two symbols.
InitBuild == \E symbols \in [1..2 -> Symbols(BuildBuffers)] : InitProject(symbols)

\* conf.py:83, app.connect('autodoc-process-docstring', skip_pydantic_init).
SetupConnect ==
  /\ pc = "conf"
  /\ handlers' = handlers \cup {"skip_pydantic_init"}
  /\ pc' = "setup"
  /\ UNCHANGED <<lg, project, bufs, n, cur, stock, cb, run>>

\* conf.py:84, logging.basicConfig(level=logging.INFO); setup returns and the
\* build starts.
SetupBasicConfig ==
  /\ pc = "setup"
  /\ lg' = BasicConfig(lg, "INFO")
  /\ pc' = "build"
  /\ UNCHANGED <<handlers, project, bufs, n, cur, stock, cb, run>>

\* The build emits 'autodoc-process-docstring' for the next symbol: the
\* connected filter runs on that symbol's own line buffer, which it changes
\* in place.  An exception that escapes the callback aborts the build.
Process ==
  /\ pc = "build"
  /\ n < Len(project)
  /\ "skip_pydantic_init" \in handlers
  /\ LET sym == project[n + 1]
         r == SkipPydanticInit(lg, sym.what, sym.name, sym.obj, bufs[n + 1])
     IN /\ cur' = CallRecord(sym.what, sym.name, sym.obj, bufs[n + 1], lg, r)
        /\ bufs' = [bufs EXCEPT ![n + 1] = r.lines]
        /\ lg' = r.lg
        /\ pc' = IF r.raised = "none" THEN "build" ELSE "aborted"
  /\ n' = n + 1
  /\ UNCHANGED <<handlers, project, stock, cb, run>>

\* The build has documented every symbol.
Finish ==
  /\ pc = "build"
  /\ n = Len(project)
  /\ pc' = "done"
  /\ UNCHANGED <<handlers, lg, project, bufs, n, cur, stock, cb, run>>

Next == SetupConnect \/ SetupBasicConfig \/ Process \/ Finish

Spec == Init /\ [][Next]_vars

SpecBuild == InitBuild /\ [][Next]_vars

\* The filter is applied a second time to the buffer that its first
\* application to the symbol produced.
ProcessAgain ==
  /\ pc = "build"
  /\ n > 0
  /\ n = Len(project)
  /\ "skip_pydantic_init" \in handlers
  /\ LET sym == project[n]
         r == SkipPydanticInit(lg, sym.what, sym.name, sym.obj, bufs[n])
     IN /\ cur' = CallRecord(sym.what, sym.name, sym.obj, bufs[n], lg, r)
        /\ bufs' = [bufs EXCEPT ![n] = r.lines]
        /\ lg' = r.lg
        /\ pc' = IF r.raised = "none" THEN "build" ELSE "aborted"
  /\ n' = n + 1
  /\ UNCHANGED <<handlers, project, stock, cb, run>>

NextTwice == SetupConnect \/ SetupBasicConfig \/ Process \/ ProcessAgain \/ Finish

SpecTwice == Init /\ [][NextTwice]_vars

\* ------------------------------------------------- stock agent: the tool

\* Python's None and a returned value, as one shape of record.
None == [isNone |-> TRUE, val |-> 0]
Some(v) == [isNone |-> FALSE, val |-> v]

StockSymbols == {"GOOG", "NOSUCH"}

\* What a call into yfinance does: it returns, or raises one of these.
Outcomes == {"ok", "ConnectionError", "KeyError", "KeyboardInterrupt"}

\* The world a get_stock_price call meets: the outcome of yf.Ticker(symbol),
\* the outcome of stock.history(period="1d"), whether the returned frame has
\* a Close column, and that column's rows, oldest first.
Envs ==
  [ticker : Outcomes, history : Outcomes, hasClose : BOOLEAN,
   close : SeqsUpTo(0..MaxPrice, MaxRows)]

StockResult(ret, printed, propagated) ==
  [ret |-> ret, printed |-> printed, propagated |-> propagated]

\* Mutant of ExceptException: the handler is `except OSError`.
ExceptOSError(symbol, e) ==
  IF Catches("OSError", e)
  THEN StockResult(None, <<"Error retrieving stock price for ", symbol, ": ", e>>, "none")
  ELSE StockResult(None, <<>>, e)

\* stock_agent.py:35-37: `except Exception as e` prints and returns None; an
\* exception that is no Exception propagates.
ExceptException(symbol, e) ==
  IF Catches("Exception", e)
  THEN StockResult(None, <<"Error retrieving stock price for ", symbol, ": ", e>>, "none")
  ELSE StockResult(None, <<>>, e)

\* Mutant of ILocLast: iloc[0], the oldest row.
ILocFirst(col) == col[1]

\* stock_agent.py:31, historical_data["Close"].iloc[-1].
ILocLast(col) == col[Len(col)]

\* stock_agent.py:17-37.
GetStockPrice(symbol, env) ==
  IF env.ticker # "ok" THEN ExceptException(symbol, env.ticker)
  ELSE IF env.history # "ok" THEN ExceptException(symbol, env.history)
  ELSE IF Len(env.close) > 0
       THEN IF env.hasClose
            THEN StockResult(Some(ILocLast(env.close)), <<>>, "none")
            ELSE ExceptException(symbol, "KeyError")
       ELSE StockResult(None, <<>>, "none")

\* The agent is about to call the tool for a symbol, in some world.
InitStock ==
  /\ pc = "idle"
  /\ handlers = {}
  /\ lg = [handlers |-> 0, level |-> "WARNING"]
  /\ project = <<>>
  /\ bufs = <<>>
  /\ n = 0
  /\ cur = NoCall
  /\ \E symbol \in StockSymbols, env \in Envs :
       stock = [pc |-> "called", symbol |-> symbol, env |-> env]
  /\ cb = IdleCb
  /\ run = IdleRun

\* The tool call runs to its end.
GetStockPriceCall ==
  /\ stock.pc = "called"
  /\ LET r == GetStockPrice(stock.symbol, stock.env)
     IN stock' = [pc |-> "returned", symbol |-> stock.symbol, env |-> stock.env,
                  ret |-> r.ret, printed |-> r.printed, propagated |-> r.propagated]
  /\ UNCHANGED <<pc, handlers, lg, project, bufs, n, cur, cb, run>>

NextStock == GetStockPriceCall

SpecStock == InitStock /\ [][NextStock]_vars

\* ------------------------------------------- before-agent callback example

\* Values a session state may hold, written as Python literals.
PyValues == {"True", "False", "None", "0", "1", "''", "'yes'"}

\* bool(v)
Truthy(v) == v \notin {"False", "None", "0", "''"}

StateKeys == {"skip_agent", "other"}

SessionStates == UNION {[ks -> PyValues] : ks \in SUBSET StateKeys}

\* dict.get(key, default)
DictGet(st, key, default) == IF key \in DOMAIN st THEN st[key] ELSE default

AgentNames == {"SimpleLlmAgent", "OtherAgent"}

\* Optional[types.Content]: None, or a Content of one text part.
NoContent == [isNone |-> TRUE, text |-> <<>>]
Content(text) == [isNone |-> FALSE, text |-> text]

\* Mutant of SimpleBeforeAgentLogger: the condition is `"skip_agent" in state`.
SimpleBeforeAgentLoggerKeyTest(agent, inv, st) ==
  IF "skip_agent" \in DOMAIN st
  THEN [ret |-> Content(<<"Agent ", agent, " was skipped by callback.">>),
        state |-> st,
        printed |-> <<"Entering agent", "Condition met: Skipping agent">>]
  ELSE [ret |-> NoContent, state |-> st,
        printed |-> <<"Entering agent", "Condition not met: Proceeding with agent">>]

\* before_agent_callback.py:11-25.  The result is the returned value, the
\* session state after the call and what was printed.
SimpleBeforeAgentLogger(agent, inv, st) ==
  IF Truthy(DictGet(st, "skip_agent", "False"))
  THEN [ret |-> Content(<<"Agent ", agent, " was skipped by callback.">>),
        state |-> st,
        printed |-> <<"Entering agent", "Condition met: Skipping agent">>]
  ELSE [ret |-> NoContent, state |-> st,
        printed |-> <<"Entering agent", "Condition not met: Proceeding with agent">>]

\* A runner is about to enter an agent whose before_agent_callback is
\* simple_before_agent_logger, with some session state.
InitCallback ==
  /\ pc = "idle"
  /\ handlers = {}
  /\ lg = [handlers |-> 0, level |-> "WARNING"]
  /\ project = <<>>
  /\ bufs = <<>>
  /\ n = 0
  /\ cur = NoCall
  /\ stock = IdleStock
  /\ run = IdleRun
  /\ \E agent \in AgentNames, st \in SessionStates :
       cb = [pc |-> "entering", agent |-> agent, before |-> st, state |-> st,
             ret |-> NoContent, printed |-> <<>>]

\* The framework calls the before-agent callback.
BeforeAgentCallback ==
  /\ cb.pc = "entering"
  /\ LET r == SimpleBeforeAgentLogger(cb.agent, "inv-1", cb.state)
     IN cb' = [cb EXCEPT !.pc = "called", !.ret = r.ret, !.state = r.state,
                         !.printed = r.printed]
  /\ UNCHANGED <<pc, handlers, lg, project, bufs, n, cur, stock, run>>

\* before_agent_callback.py:23-25: the callback returned None, the agent runs.
AgentRuns ==
  /\ cb.pc = "called"
  /\ cb.ret.isNone
  /\ cb' = [cb EXCEPT !.pc = "ran"]
  /\ UNCHANGED <<pc, handlers, lg, project, bufs, n, cur, stock, run>>

\* before_agent_callback.py:19-21: the callback returned a Content, the
\* agent's run is skipped and the Content is the agent's output.
AgentSkipped ==
  /\ cb.pc = "called"
  /\ ~cb.ret.isNone
  /\ cb' = [cb EXCEPT !.pc = "skipped"]
  /\ UNCHANGED <<pc, handlers, lg, project, bufs, n, cur, stock, run>>

NextCallback == BeforeAgentCallback \/ AgentRuns \/ AgentSkipped

SpecCallback == InitCallback /\ [][NextCallback]_vars

\* -------------------------------------------- after-agent callback example

AfterStateKeys == {"add_concluding_note", "agent_run_status"}

AfterSessionStates == UNION {[ks -> PyValues] : ks \in SUBSET AfterStateKeys}

\* Mutant of SimpleAfterAgentLogger: the note is added when the run status
\* is set, the key of the first state lookup.
SimpleAfterAgentLoggerStatusTest(agent, inv, st) ==
  LET final_status == DictGet(st, "agent_run_status", "Completed Normally")
  IN IF Truthy(DictGet(st, "agent_run_status", "False"))
     THEN [ret |-> Content(<<"Concluding note added by after_agent_callback.">>),
           state |-> st,
           printed |-> <<"Exiting agent", final_status, "Adding concluding note">>]
     ELSE [ret |-> NoContent, state |-> st,
           printed |-> <<"Exiting agent", final_status, "No concluding note added">>]

\* after_agent_callback.py:11-29.  The result is the returned value, the
\* session state after the call and what was printed.
SimpleAfterAgentLogger(agent, inv, st) ==
  LET final_status == DictGet(st, "agent_run_status", "Completed Normally")
  IN IF Truthy(DictGet(st, "add_concluding_note", "False"))
     THEN [ret |-> Content(<<"Concluding note added by after_agent_callback.">>),
           state |-> st,
           printed |-> <<"Exiting agent", final_status, "Adding concluding note">>]
     ELSE [ret |-> NoContent, state |-> st,
           printed |-> <<"Exiting agent", final_status, "No concluding note added">>]

\* An agent whose after_agent_callback is simple_after_agent_logger has run,
\* leaving some session state.
InitAfter ==
  /\ pc = "idle"
  /\ handlers = {}
  /\ lg = [handlers |-> 0, level |-> "WARNING"]
  /\ project = <<>>
  /\ bufs = <<>>
  /\ n = 0
  /\ cur = NoCall
  /\ stock = IdleStock
  /\ run = IdleRun
  /\ \E agent \in AgentNames, st \in AfterSessionStates :
       cb = [pc |-> "exiting", agent |-> agent, before |-> st, state |-> st,
             ret |-> NoContent, printed |-> <<>>]

\* The framework calls the after-agent callback.
AfterAgentCallback ==
  /\ cb.pc = "exiting"
  /\ LET r == SimpleAfterAgentLogger(cb.agent, "inv-1", cb.state)
     IN cb' = [cb EXCEPT !.pc = "called", !.ret = r.ret, !.state = r.state,
                         !.printed = r.printed]
  /\ UNCHANGED <<pc, handlers, lg, project, bufs, n, cur, stock, run>>

\* after_agent_callback.py:24-25: the returned Content is appended after the
\* agent's own output.
NoteAppended ==
  /\ cb.pc = "called"
  /\ ~cb.ret.isNone
  /\ cb' = [cb EXCEPT !.pc = "appended"]
  /\ UNCHANGED <<pc, handlers, lg, project, bufs, n, cur, stock, run>>

\* after_agent_callback.py:28-29: None was returned, nothing is appended.
NothingAppended ==
  /\ cb.pc = "called"
  /\ cb.ret.isNone
  /\ cb' = [cb EXCEPT !.pc = "unchanged"]
  /\ UNCHANGED <<pc, handlers, lg, project, bufs, n, cur, stock, run>>

NextAfter == AfterAgentCallback \/ NoteAppended \/ NothingAppended

SpecAfter == InitAfter /\ [][NextAfter]_vars

\* ------------------------------------------ parallel research: direct run

\* os.getenv("GOOGLE_API_KEY"): None when unset, or the variable's string.
EnvValues == {"None", "''", "'AIza-key'"}

Researchers == {"RenewableEnergyResearcher", "EVResearcher", "CarbonCaptureResearcher"}

\* The output_key of each researcher.
OutputKey(author) ==
  CASE author = "RenewableEnergyResearcher" -> "renewable_energy_result"
    [] author = "EVResearcher" -> "ev_technology_result"
    [] OTHER -> "carbon_capture_result"

\* What the runner yields: a partial event, a final response with text (the
\* runner has saved it under the author's output_key), a final response whose
\* first part has no text, or an error event.
EventKinds == {"partial", "final", "final_no_text", "error"}

Events == [author : Researchers, kind : EventKinds]

\* Mutant of ApiKeyMissing: the test is `os.getenv(...) is None`.
ApiKeyIsNone(v) == v = "None"

\* parallel_agent_web_research.py:146, `not os.getenv("GOOGLE_API_KEY")`.
ApiKeyMissing(v) == ~Truthy(v)

\* The script has created the runner and the session; run_direct_method is
\* about to be awaited, in some environment and before some event stream.
InitRun ==
  /\ pc = "idle"
  /\ handlers = {}
  /\ lg = [handlers |-> 0, level |-> "WARNING"]
  /\ project = <<>>
  /\ bufs = <<>>
  /\ n = 0
  /\ cur = NoCall
  /\ stock = IdleStock
  /\ cb = IdleCb
  /\ \E key \in EnvValues, stream \in SeqsUpTo(Events, MaxEvents) :
       run = [pc |-> "start", key |-> key, stream |-> stream, consumed |-> 0,
              state |-> {}, started |-> 0, error |-> FALSE,
              readDone |-> FALSE, readState |-> {}]

\* parallel_agent_web_research.py:144-149 and 116-125: without the key the
\* error is printed and the method returns; with it call_agent_directly
\* builds the message and starts runner.run_async.
RunDirectMethod ==
  /\ run.pc = "start"
  /\ run' = IF ApiKeyMissing(run.key)
            THEN [run EXCEPT !.pc = "returned", !.error = TRUE]
            ELSE [run EXCEPT !.pc = "streaming", !.started = @ + 1]
  /\ UNCHANGED <<pc, handlers, lg, project, bufs, n, cur, stock, cb>>

\* parallel_agent_web_research.py:125-135: one turn of the `async for`.  The
\* runner has applied the event to the session; the body prints it, and
\* raises on a final response whose text is None (None.strip()).
NextEvent ==
  /\ run.pc = "streaming"
  /\ run.consumed < Len(run.stream)
  /\ LET event == run.stream[run.consumed + 1]
     IN run' = [run EXCEPT
                  !.consumed = @ + 1,
                  !.state = IF event.kind = "final"
                            THEN @ \cup {OutputKey(event.author)} ELSE @,
                  !.pc = IF event.kind = "final_no_text" THEN "raised" ELSE "streaming"]
  /\ UNCHANGED <<pc, handlers, lg, project, bufs, n, cur, stock, cb>>

\* parallel_agent_web_research.py:137-142: the stream is exhausted, the final
\* session is fetched and its state printed.
ReadFinalState ==
  /\ run.pc = "streaming"
  /\ run.consumed = Len(run.stream)
  /\ run' = [run EXCEPT !.pc = "done", !.readDone = TRUE, !.readState = run.state]
  /\ UNCHANGED <<pc, handlers, lg, project, bufs, n, cur, stock, cb>>

NextRun == RunDirectMethod \/ NextEvent \/ ReadFinalState

SpecRun == InitRun /\ [][NextRun]_vars

\* ------------------------------------------------ properties of the filter

GenericPhrase == "Create a new model by parsing"

\* The first line of the buffer begins with the generic phrase.
BeginsWithPhrase(buf) ==
  Len(buf) > 0 /\ Len(buf[1]) > 0 /\ buf[1][1] = GenericPhrase

\* obj is a class whose resolution chain starts with a data-model class.
DataModelClass(obj) == obj \in {"Model", "BaseModel"}

\* obj is not a class: looking up its resolution chain fails.
NotClassLike(obj) == obj \notin {"Model", "BaseModel", "Plain"}

\* The docstring of exactly one empty line.
EmptyDocstring == << <<>> >>

\* The call took one of the two branches that look up the resolution chain.
InLookupBranch(c) ==
  c.what = "pydantic_model" \/ (c.what = "method" /\ c.name = "__init__")

LoggedNotClassLike(c) ==
  \E i \in 1..Len(c.out) :
    c.out[i] \in {"obj is not a class-like object (pydantic_model)",
                  "obj is not a class-like object (method)"}

\* C1: when the resolution-chain lookup fails because the object is not
\* class-like, in either lookup branch, the filter leaves the lines unchanged,
\* logs the informational message and lets no exception escape.
C1_NotClassLikeIsNoOp ==
  (cur # NoCall /\ InLookupBranch(cur) /\ NotClassLike(cur.obj))
    => /\ cur.after = cur.lines
       /\ cur.raised = "none"
       /\ LoggedNotClassLike(cur)
       /\ pc # "aborted"

\* C2: for a 'pydantic_model' symbol whose object is a data-model class and
\* whose first docstring line starts with the generic phrase, the buffer after
\* the call is exactly one empty line, whatever followed the first line.
C2_GenericDocstringSuppressed ==
  (cur # NoCall /\ cur.what = "pydantic_model" /\ DataModelClass(cur.obj)
     /\ BeginsWithPhrase(cur.lines))
    => (cur.after = EmptyDocstring /\ bufs[n] = EmptyDocstring /\ cur.raised = "none")

C2_Witness ==
  /\ cur # NoCall /\ cur.what = "pydantic_model" /\ cur.obj = "Model"
  /\ Len(cur.lines) = 2 /\ BeginsWithPhrase(cur.lines) /\ Len(cur.lines[1]) = 2
  /\ cur.lines[2] # <<>>
  /\ bufs[n] = EmptyDocstring

\* C3: for a 'pydantic_model' symbol whose docstring does not start with the
\* generic phrase (an empty buffer, the phrase on a later line or not at the
\* start of the first line), the buffer is left unchanged.
C3_OtherDocstringKept ==
  (cur # NoCall /\ cur.what = "pydantic_model" /\ ~BeginsWithPhrase(cur.lines))
    => (cur.after = cur.lines /\ bufs[n] = cur.lines)

C3_Witness ==
  /\ cur # NoCall /\ cur.what = "pydantic_model" /\ cur.obj = "Model"
  /\ cur.lines = << <<" x", GenericPhrase>>, <<GenericPhrase>> >>
  /\ bufs[n] = cur.lines /\ cur.raised = "none"

\* C4: for the method __init__ of a class whose resolution chain starts with a
\* data-model class, the docstring ends up as exactly one empty line.
C4_InitMethodSuppressed ==
  (cur # NoCall /\ cur.what = "method" /\ cur.name = "__init__"
     /\ IsFunction(cur.obj) /\ DataModelClass(Owner(cur.obj)))
    => (cur.after = EmptyDocstring /\ cur.raised = "none")

\* C5: the buffer is replaced by one empty line only when the first class of
\* the object's chain is a data-model class and the first line begins with the
\* generic phrase; in every other call, in any branch, the buffer is unchanged.
C5_SuppressedOnlyWhenBoth ==
  (cur # NoCall /\ ~(DataModelClass(cur.obj) /\ BeginsWithPhrase(cur.lines)))
    => cur.after = cur.lines

C7_LoggingConfiguredBeforeFilter ==
  /\ pc = "setup" => ("skip_pydantic_init" \in handlers /\ lg.handlers = 0 /\ n = 0)
  /\ n > 0 => /\ cur.lgBefore = [handlers |-> 1, level |-> "INFO"]
              /\ lg = cur.lgBefore

C7_Witness ==
  /\ n = 2 /\ lg = [handlers |-> 1, level |-> "INFO"] /\ Len(cur.out) > 0

\* C13: the filter is idempotent on the line buffer: applied a second time to
\* the buffer its first application produced, without raising, it leaves that
\* buffer unchanged (a suppressed docstring [''] stays ['']).
C13_FilterIdempotent ==
  n > Len(project)
    => /\ cur.after = cur.lines
       /\ bufs[Len(project)] = cur.lines
       /\ cur.raised = "none"

C13_Witness ==
  /\ n > Len(project) /\ project[1].what = "method" /\ project[1].obj = "Model"
  /\ project[1].lines \notin {<<>>, EmptyDocstring}
  /\ cur.lines = EmptyDocstring /\ bufs[1] = EmptyDocstring

C8_StockErrorsReturnNone ==
  stock.pc = "returned" =>
    LET e == stock.env
        raisedExc ==
          IF e.ticker # "ok" THEN e.ticker
          ELSE IF e.history # "ok" THEN e.history
          ELSE IF e.close # <<>> /\ ~e.hasClose THEN "KeyError"
          ELSE "ok"
    IN /\ raisedExc \in {"ConnectionError", "KeyError"}
            => (stock.ret.isNone /\ stock.printed # <<>> /\ stock.propagated = "none")
       /\ (raisedExc = "ok" /\ e.close = <<>>)
            => (stock.ret.isNone /\ stock.propagated = "none")
       /\ stock.propagated \notin {"ConnectionError", "KeyError"}

C8_Witness ==
  /\ stock.pc = "returned" /\ stock.env.ticker = "ok"
  /\ stock.env.history = "ConnectionError"
  /\ stock.ret.isNone /\ stock.printed # <<>> /\ stock.propagated = "none"

\* A valid symbol: the ticker and its history are fetched, the history has
\* rows and a Close column, and every close price is positive.
ValidHistory(e) ==
  /\ e.ticker = "ok" /\ e.history = "ok" /\ e.hasClose
  /\ e.close # <<>>
  /\ \A i \in 1..Len(e.close) : e.close[i] > 0

\* C9: for a valid symbol whose one-day history is not empty, get_stock_price
\* returns the last entry of the Close column, a number above 0, not None.
C9_ReturnsLastClose ==
  (stock.pc = "returned" /\ ValidHistory(stock.env))
    => /\ ~stock.ret.isNone
       /\ stock.ret.val = stock.env.close[Len(stock.env.close)]
       /\ stock.ret.val > 0
       /\ stock.propagated = "none"

C9_Witness ==
  /\ stock.pc = "returned" /\ ValidHistory(stock.env)
  /\ Len(stock.env.close) = 2 /\ stock.env.close[1] # stock.env.close[2]
  /\ stock.ret = Some(stock.env.close[2])

\* C10: simple_before_agent_logger returns a Content, and the agent's run is
\* skipped, exactly when the state's 'skip_agent' value is truthy; when the
\* key is absent or falsy it returns None and the agent runs.  The Content's
\* text names the agent, and the callback never writes to the state.
C10_SkipIffTruthy ==
  cb.pc \in {"called", "ran", "skipped"} =>
    LET skip == /\ "skip_agent" \in DOMAIN cb.before
                /\ cb.before["skip_agent"] \in {"True", "1", "'yes'"}
    IN /\ skip <=> ~cb.ret.isNone
       /\ ~cb.ret.isNone => \E i \in 1..Len(cb.ret.text) : cb.ret.text[i] = cb.agent
       /\ cb.state = cb.before
       /\ cb.pc = "skipped" => skip
       /\ cb.pc = "ran" => ~skip

C10_Witness ==
  /\ cb.pc = "skipped" /\ cb.before["skip_agent"] = "'yes'"
  /\ cb.ret = Content(<<"Agent ", cb.agent, " was skipped by callback.">>)

\* C11: simple_after_agent_logger returns a Content, which is appended after
\* the agent's output, exactly when the state's 'add_concluding_note' value is
\* truthy; when the key is absent or falsy it returns None and nothing is
\* appended.  'agent_run_status' (default 'Completed Normally') shows only in
\* what is printed, and the callback never writes to the state.
C11_NoteIffTruthy ==
  cb.pc \in {"called", "appended", "unchanged"} =>
    LET note == /\ "add_concluding_note" \in DOMAIN cb.before
                /\ cb.before["add_concluding_note"] \in {"True", "1", "'yes'"}
        status == IF "agent_run_status" \in DOMAIN cb.before
                  THEN cb.before["agent_run_status"] ELSE "Completed Normally"
    IN /\ note <=> ~cb.ret.isNone
       /\ note => cb.ret.text = <<"Concluding note added by after_agent_callback.">>
       /\ \E i \in 1..Len(cb.printed) : cb.printed[i] = status
       /\ cb.state = cb.before
       /\ cb.pc = "appended" => note
       /\ cb.pc = "unchanged" => ~note

C11_Witness ==
  /\ cb.pc = "appended"
  /\ "agent_run_status" \notin DOMAIN cb.before
  /\ cb.before["add_concluding_note"] = "1"
  /\ cb.printed[2] = "Completed Normally"
  /\ ~cb.ret.isNone

\* C12: run_direct_method never starts the agent run when GOOGLE_API_KEY is
\* unset or empty: it prints an error and returns, and the session state stays
\* as created.  With the key set the run is started exactly once, and the
\* final session state is read only after the whole event stream is consumed.
C12_NoRunWithoutApiKey ==
  run.pc # "idle" =>
    LET missing == run.key \in {"None", "''"}
    IN /\ missing => /\ run.started = 0 /\ run.consumed = 0
                     /\ run.state = {} /\ ~run.readDone
                     /\ run.pc \in {"start", "returned"}
                     /\ run.pc = "returned" => run.error
       /\ ~missing => /\ run.started = (IF run.pc = "start" THEN 0 ELSE 1)
                      /\ ~run.error /\ run.pc # "returned"
       /\ run.readDone => /\ run.consumed = Len(run.stream)
                          /\ run.readState = run.state
                          /\ run.pc = "done"

C12_WitnessRun ==
  /\ run.pc = "done" /\ run.key = "'AIza-key'" /\ run.started = 1
  /\ Len(run.stream) = 2 /\ run.readDone
  /\ run.readState = {"ev_technology_result", "carbon_capture_result"}

C12_WitnessNoKey ==
  run.pc = "returned" /\ run.key = "''" /\ run.error /\ Len(run.stream) > 0

====
